---- MODULE Spec2Model ----
(***************************************************************************)
(* Model of the approximate-equality core of the `lav` crate:              *)
(*   Bits::abs_sub / SimdBits::abs_sub          (src/src/bits, simd_bits)  *)
(*   impl ApproxEq<R> for R                     (src/src/real/mod.rs)      *)
(*   SimdReal::simd_approx_eq / simd_approx_ne  (src/src/simd_real/mod.rs) *)
(*   impl ApproxEq<f32> for Simd<f32, LANES>    (src/src/simd_real/f32.rs) *)
(*                                                                         *)
(* The crate instantiates Real for f32 and f64.  The model instantiates it *)
(* for an IEEE-754 binary format of the same layout (sign, biased          *)
(* exponent, trailing significand) with ExpBits exponent bits and ManBits  *)
(* significand bits, so that every value of the type can be enumerated.    *)
(* A Real is the record [s, e, m] of its three fields; its Bits is the     *)
(* unsigned integer of WidthBits bits.                                     *)
(***************************************************************************)
EXTENDS Integers, FiniteSets, Sequences, TLC

\* Exponent field width of the modelled format (8 for f32, 11 for f64).
ExpBits == 2
\* Trailing significand field width of the modelled format (23 for f32, 52 for f64).
ManBits == 1
\* Lane count N of the modelled SIMD vectors.
Lanes == 2
\* Number of concurrent callers.
NumCallers == 2

RECURSIVE Pow2(_)
Pow2(n) == IF n = 0 THEN 1 ELSE 2 * Pow2(n - 1)

WidthBits == 1 + ExpBits + ManBits
ExpMax == Pow2(ExpBits) - 1
ManMod == Pow2(ManBits)
SignBit == Pow2(WidthBits - 1)

\* The values of the bit-pattern integer type (u32 / u64).
BitsT == 0 .. (Pow2(WidthBits) - 1)
\* Bits::MIN and Bits::MAX.
BITS_MIN == 0
BITS_MAX == Pow2(WidthBits) - 1

\* The values of the floating-point type (f32 / f64), by fields.
RealT == [s : {0, 1}, e : 0 .. ExpMax, m : 0 .. (ManMod - 1)]

LaneIdx == 1 .. Lanes

(***************************************************************************)
(* Bits: integer operations of the bit-pattern type.                       *)
(***************************************************************************)

\* u32::saturating_add: the sum, clamped to MAX.
saturating_add(x, y) == IF x + y > BITS_MAX THEN BITS_MAX ELSE x + y

\* Fault: a wrapping subtraction in place of the saturating one.
wrapping_sub(x, y) == (x + (BITS_MAX + 1) - y) % (BITS_MAX + 1)

\* u32::saturating_sub: the difference, clamped to zero.
saturating_sub(x, y) == IF x >= y THEN x - y ELSE 0

\* Fault: `&` in place of `|`.
RECURSIVE BitAnd(_, _)
BitAnd(x, y) ==
    IF x = 0 \/ y = 0 THEN 0
    ELSE (IF (x % 2 = 1) /\ (y % 2 = 1) THEN 1 ELSE 0) + 2 * BitAnd(x \div 2, y \div 2)

\* The `|` of the bit-pattern type, bit by bit.
RECURSIVE BitOr(_, _)
BitOr(x, y) ==
    IF x = 0 THEN y
    ELSE IF y = 0 THEN x
    ELSE (IF (x % 2 = 1) \/ (y % 2 = 1) THEN 1 ELSE 0) + 2 * BitOr(x \div 2, y \div 2)

\* Fault: only one of the two saturating subtractions.
abs_sub_one_sided(x, y) == saturating_sub(x, y)

\* Fault: the wrapping difference in place of the absolute one.
abs_sub_wrapping(x, y) == (x - y + BITS_MAX + 1) % (BITS_MAX + 1)

\* Bits::abs_sub.
abs_sub(x, y) == BitOr(saturating_sub(x, y), saturating_sub(y, x))

(***************************************************************************)
(* Real: the floating-point operations approx_eq is made of.               *)
(***************************************************************************)

\* Fault: a bit layout with the significand above the exponent, in which the
\* patterns of one sign are not ordered like the magnitudes.
to_bits_significand_first(r) == r.s * SignBit + r.m * (ExpMax + 1) + r.e

\* Real::to_bits: packs the three fields into the unsigned integer.
to_bits(r) == r.s * SignBit + r.e * ManMod + r.m

\* Fault: a conversion that loses the sign and the payload of the NaNs.
from_bits_canonical_nan(p) ==
    IF (p \div ManMod) % (ExpMax + 1) = ExpMax /\ p % ManMod # 0
    THEN [s |-> 0, e |-> ExpMax, m |-> Pow2(ManBits - 1)]
    ELSE [s |-> p \div SignBit, e |-> (p \div ManMod) % (ExpMax + 1),
          m |-> p % ManMod]

\* Real::from_bits: splits the unsigned integer into the three fields.
from_bits(p) ==
    [s |-> p \div SignBit, e |-> (p \div ManMod) % (ExpMax + 1), m |-> p % ManMod]

\* Fault: a NaN test on the exponent field alone, which takes the
\* infinities for NaNs.
is_nan_or_infinite(r) == r.e = ExpMax

\* Fault: a NaN test that misses the NaNs whose sign bit is set.
is_nan_positive_only(r) == r.e = ExpMax /\ r.m # 0 /\ r.s = 0

is_nan(r) == r.e = ExpMax /\ r.m # 0
is_infinite(r) == r.e = ExpMax /\ r.m = 0
is_finite(r) == r.e # ExpMax
is_sign_negative(r) == r.s = 1

\* Magnitude of a non-NaN value in units of the smallest subnormal; infinity
\* takes the first value beyond every finite magnitude.
Magnitude(r) == IF r.e = 0 THEN r.m ELSE (ManMod + r.m) * Pow2(r.e - 1)

\* Signed value of a non-NaN value, in the same units.
Value(r) == IF r.s = 1 THEN 0 - Magnitude(r) ELSE Magnitude(r)

\* Number of binary digits of n >= 1.
RECURSIVE BitLen(_)
BitLen(n) == IF n = 0 THEN 0 ELSE 1 + BitLen(n \div 2)

\* Rounds the exact magnitude n >= 1 (in units of the smallest subnormal) to
\* the nearest value of the format, ties to even, overflowing to infinity.
RoundMagnitude(s, n) ==
    IF n < ManMod THEN [s |-> s, e |-> 0, m |-> n]
    ELSE
        LET k == BitLen(n) - (ManBits + 1)
            q == n \div Pow2(k)
            r == n % Pow2(k)
            half == IF k = 0 THEN 0 ELSE Pow2(k - 1)
            up == k > 0 /\ (r > half \/ (r = half /\ q % 2 = 1))
            q1 == IF up THEN q + 1 ELSE q
            carry == q1 = 2 * ManMod
            e1 == IF carry THEN k + 2 ELSE k + 1
            m1 == IF carry THEN 0 ELSE q1 - ManMod
        IN IF e1 >= ExpMax THEN [s |-> s, e |-> ExpMax, m |-> 0]
           ELSE [s |-> s, e |-> e1, m |-> m1]

\* The quiet NaN an invalid operation produces.
DefaultNaN == [s |-> 0, e |-> ExpMax, m |-> Pow2(ManBits - 1)]

\* `self - other` of the floating-point type (IEEE-754 subtraction, round to
\* nearest even).  A NaN operand gives a NaN; inf - inf gives a NaN.
sub(x, y) ==
    IF is_nan(x) THEN x
    ELSE IF is_nan(y) THEN y
    ELSE IF is_infinite(x) /\ is_infinite(y)
        THEN IF x.s = y.s THEN DefaultNaN ELSE x
    ELSE IF is_infinite(x) THEN x
    ELSE IF is_infinite(y) THEN [y EXCEPT !.s = 1 - y.s]
    ELSE
        LET d == Value(x) - Value(y)
        IN IF d = 0
           THEN [s |-> IF x.s = 1 /\ y.s = 0 THEN 1 ELSE 0, e |-> 0, m |-> 0]
           ELSE IF d < 0 THEN RoundMagnitude(1, 0 - d)
           ELSE RoundMagnitude(0, d)

\* Fault: the absolute value left out.
abs_identity(r) == r

\* Real::abs: clears the sign bit (a NaN stays a NaN).
abs(r) == [r EXCEPT !.s = 0]

\* Fault: `<=` written as the negation of `>`, true when either is NaN.
le_not_greater(x, y) == is_nan(x) \/ is_nan(y) \/ Value(x) <= Value(y)

\* Fault: `<` in place of `<=`.
le_strict(x, y) == ~is_nan(x) /\ ~is_nan(y) /\ Value(x) < Value(y)

\* `<=` of the floating-point type (PartialOrd): false when either is NaN.
le(x, y) == ~is_nan(x) /\ ~is_nan(y) /\ Value(x) <= Value(y)

(***************************************************************************)
(* ApproxEq for scalars.                                                   *)
(***************************************************************************)

\* Fault (of the properties that describe the gate as written): the gate
\* comparing the sign of `self` with the sign of `other`.
sign_gate_cross(self, other) == is_sign_negative(self) = is_sign_negative(other)

\* The sign gate as written in `impl ApproxEq<R> for R`: it compares the
\* sign of `self` with the sign of `self`.
sign_gate(self, other) == is_sign_negative(self) = is_sign_negative(self)

\* `<` of the floating-point type (PartialOrd): false when either is NaN.
lt(x, y) == ~is_nan(x) /\ ~is_nan(y) /\ Value(x) < Value(y)

\* Fault: the epsilon test with `<` in place of `<=`.
epsilon_test_strict(self, other, epsilon) == lt(abs(sub(self, other)), epsilon)

\* Fault: the epsilon test with the operands of `<=` exchanged.
epsilon_test_reversed(self, other, epsilon) == le(epsilon, abs(sub(self, other)))

\* Fault: the epsilon test against the magnitude of epsilon.
epsilon_test_abs_epsilon(self, other, epsilon) ==
    le(abs(sub(self, other)), abs(epsilon))

\* The epsilon test `Real::abs(*self - other) <= epsilon`.
epsilon_test(self, other, epsilon) == le(abs(sub(self, other)), epsilon)

\* Fault: approx_eq without the two NaN tests.
approx_eq_without_nan_tests(self, other, epsilon, ulp) ==
    \/ epsilon_test(self, other, epsilon)
    \/ /\ sign_gate(self, other)
       /\ abs_sub(to_bits(self), to_bits(other)) <= ulp

\* Fault: the ulp test with `==` in place of `<=`.
approx_eq_ulp_exact(self, other, epsilon, ulp) ==
    \/ epsilon_test(self, other, epsilon)
    \/ /\ ~is_nan(self)
       /\ ~is_nan(other)
       /\ sign_gate(self, other)
       /\ abs_sub(to_bits(self), to_bits(other)) = ulp

\* Fault: approx_eq that gives up on a NaN epsilon.
approx_eq_rejecting_nan_epsilon(self, other, epsilon, ulp) ==
    /\ ~is_nan(epsilon)
    /\ \/ epsilon_test(self, other, epsilon)
       \/ /\ ~is_nan(self)
          /\ ~is_nan(other)
          /\ sign_gate(self, other)
          /\ abs_sub(to_bits(self), to_bits(other)) <= ulp

\* impl ApproxEq<R> for R :: approx_eq.
approx_eq(self, other, epsilon, ulp) ==
    \/ epsilon_test(self, other, epsilon)
    \/ /\ ~is_nan(self)
       /\ ~is_nan(other)
       /\ sign_gate(self, other)
       /\ abs_sub(to_bits(self), to_bits(other)) <= ulp

\* Fault: approx_ne that negates the epsilon test only.
approx_ne_epsilon_only(self, other, epsilon, ulp) == ~epsilon_test(self, other, epsilon)

\* ApproxEq::approx_ne (the trait's default method).
approx_ne(self, other, epsilon, ulp) == ~approx_eq(self, other, epsilon, ulp)

(***************************************************************************)
(* SIMD vectors and masks: functions from the lane index.                  *)
(***************************************************************************)

\* Real::splat / Bits::splat / SimdReal::splat: every lane set to value.
splat(value) == [i \in LaneIdx |-> value]

\* Fault: an insert that stores the value in every lane.
insert_every_lane(v, lane, value) == [i \in LaneIdx |-> value]

\* SimdReal::insert: `self[lane] = value; self` on the by-value copy.
insert(v, lane, value) == [v EXCEPT ![lane] = value]

\* SimdReal::from_bits, lane by lane.
simd_from_bits(v) == [i \in LaneIdx |-> from_bits(v[i])]
\* SimdReal::to_bits, lane by lane.
simd_to_bits(v) == [i \in LaneIdx |-> to_bits(v[i])]
\* `self - other` of two vectors.
simd_sub(v, w) == [i \in LaneIdx |-> sub(v[i], w[i])]
\* SimdReal::abs.
simd_abs(v) == [i \in LaneIdx |-> abs(v[i])]

\* Fault: a lane-wise comparison reduced over the lanes, every lane holding
\* whether all lanes compare.
simd_le_across_lanes(v, w) ==
    [i \in LaneIdx |-> \A j \in LaneIdx : le(v[j], w[j])]

\* SimdReal::simd_le.
simd_le(v, w) == [i \in LaneIdx |-> le(v[i], w[i])]
\* SimdReal::is_nan.
simd_is_nan(v) == [i \in LaneIdx |-> is_nan(v[i])]
\* SimdReal::is_sign_negative.
simd_is_sign_negative(v) == [i \in LaneIdx |-> is_sign_negative(v[i])]

\* SimdBits::saturating_sub.
simd_saturating_sub(v, w) == [i \in LaneIdx |-> saturating_sub(v[i], w[i])]
\* `|` of two SimdBits vectors.
simd_bitor(v, w) == [i \in LaneIdx |-> BitOr(v[i], w[i])]
\* SimdBits::abs_sub.
simd_abs_sub(v, w) == simd_bitor(simd_saturating_sub(v, w), simd_saturating_sub(w, v))
\* SimdBits::simd_le.
simd_bits_le(v, w) == [i \in LaneIdx |-> v[i] <= w[i]]

\* `|`, `&`, `^` and `!` of masks.
mask_or(p, q) == [i \in LaneIdx |-> p[i] \/ q[i]]
mask_and(p, q) == [i \in LaneIdx |-> p[i] /\ q[i]]
mask_xor(p, q) == [i \in LaneIdx |-> p[i] # q[i]]
mask_not(p) == [i \in LaneIdx |-> ~p[i]]
\* Fault: the reduction of a mask by `any` in place of `all`.
all_as_any(p) == \E i \in LaneIdx : p[i]

\* SimdMask::all and SimdMask::any.
all(p) == \A i \in LaneIdx : p[i]
any(p) == \E i \in LaneIdx : p[i]

\* Fault: a flag whose other lanes are always clear.
flag_others_clear(lane, value) ==
    [[i \in LaneIdx |-> FALSE] EXCEPT ![lane] = value]

\* SimdMask::flag: the array [!value; N] with value stored at `lane`.
flag(lane, value) == [[i \in LaneIdx |-> ~value] EXCEPT ![lane] = value]

\* SimdReal::mask_flag.
mask_flag(lane, value) == flag(lane, value)

\* `-self` of the floating-point type: the sign bit flipped.
neg(r) == [r EXCEPT !.s = 1 - r.s]
\* `-self` of a vector.
simd_neg(v) == [i \in LaneIdx |-> neg(v[i])]

\* Select::select / SimdMask::select: lane i of true_values where the mask
\* lane is true, of false_values where it is false.
select(m, true_values, false_values) ==
    [i \in LaneIdx |-> IF m[i] THEN true_values[i] ELSE false_values[i]]

\* Fault: negate with the arguments of select exchanged.
negate_inverted(m, values) == select(m, values, simd_neg(values))

\* SimdMask::negate.
negate(m, values) == select(m, simd_neg(values), values)

\* Fault: simd_approx_eq with the sign gate of the scalar implementation,
\* which compares the sign of `self` with itself.
simd_approx_eq_self_sign(self, other, epsilon, ulp) ==
    LET self_bits == simd_to_bits(self)
        other_bits == simd_to_bits(other)
    IN mask_or(
           simd_le(simd_abs(simd_sub(self, other)), epsilon),
           mask_and(
               mask_and(
                   mask_not(mask_or(simd_is_nan(self), simd_is_nan(other))),
                   mask_not(mask_xor(simd_is_sign_negative(self),
                                     simd_is_sign_negative(self)))),
               simd_bits_le(simd_abs_sub(self_bits, other_bits), ulp)))

\* SimdReal::simd_approx_eq.
simd_approx_eq(self, other, epsilon, ulp) ==
    LET self_bits == simd_to_bits(self)
        other_bits == simd_to_bits(other)
    IN mask_or(
           simd_le(simd_abs(simd_sub(self, other)), epsilon),
           mask_and(
               mask_and(
                   mask_not(mask_or(simd_is_nan(self), simd_is_nan(other))),
                   mask_not(mask_xor(simd_is_sign_negative(self),
                                     simd_is_sign_negative(other)))),
               simd_bits_le(simd_abs_sub(self_bits, other_bits), ulp)))

\* SimdReal::simd_approx_ne.
simd_approx_ne(self, other, epsilon, ulp) ==
    mask_not(simd_approx_eq(self, other, epsilon, ulp))

\* impl ApproxEq<f32> for Simd<f32, LANES> :: approx_eq.
vec_approx_eq(self, other, epsilon, ulp) ==
    all(simd_approx_eq(self, other, splat(epsilon), splat(ulp)))

\* ApproxEq::approx_ne of a SIMD vector (the trait's default method).
vec_approx_ne(self, other, epsilon, ulp) == ~vec_approx_eq(self, other, epsilon, ulp)

(***************************************************************************)
(* Inputs.                                                                 *)
(***************************************************************************)

PosZero == [s |-> 0, e |-> 0, m |-> 0]
NegZero == [s |-> 1, e |-> 0, m |-> 0]
\* Smallest positive subnormal.
MinPositive == [s |-> 0, e |-> 0, m |-> 1]
\* Real::MAX, the largest finite value.
MaxFinite == [s |-> 0, e |-> ExpMax - 1, m |-> ManMod - 1]
\* Real::INFINITY and Real::NEG_INFINITY.
INFINITY == [s |-> 0, e |-> ExpMax, m |-> 0]
NEG_INFINITY == [s |-> 1, e |-> ExpMax, m |-> 0]
\* Real::NAN.
NAN == DefaultNaN

\* The tolerances the calls are made with: zero of either sign, the smallest
\* and the largest finite step, infinity, a negative value and NaN.
EpsInputs ==
    {PosZero, NegZero, MinPositive, MaxFinite, INFINITY,
     [MinPositive EXCEPT !.s = 1], NAN}

\* The ulp tolerances the calls are made with: none, one step, the distance
\* from the pattern of +infinity to the pattern of -0.0, and Bits::MAX.
UlpInputs == {0, 1, to_bits(NegZero) - to_bits(INFINITY), BITS_MAX}

\* The classes of operands and tolerances of the calls checked for returning
\* at all: zeros, finite values, infinities and NaNs of either sign; a zero,
\* a negative, an infinite of either sign and a NaN epsilon; ulp 0 and MAX.
TotalInputs ==
    {PosZero, NegZero, MinPositive, [MaxFinite EXCEPT !.s = 1], INFINITY,
     NEG_INFINITY, NAN, [NAN EXCEPT !.s = 1]}
TotalEpsInputs ==
    {PosZero, [MinPositive EXCEPT !.s = 1], INFINITY, NEG_INFINITY, NAN}
TotalUlpInputs == {BITS_MIN, BITS_MAX}

\* The tolerances of the lane under test in the lane-wise calls.
LaneEpsInputs == {PosZero, MinPositive, INFINITY, NAN}
LaneUlpInputs == {0, 1, BITS_MAX}

\* What the other lanes of a vector hold when one lane is under test: a lane
\* that is approximately equal (adjacent values, one ulp) and a NaN lane.
FillInputs ==
    {[a |-> MinPositive, b |-> PosZero, epsilon |-> PosZero, ulp |-> 1],
     [a |-> NAN, b |-> PosZero, epsilon |-> INFINITY, ulp |-> BITS_MAX]}

(***************************************************************************)
(* State.                                                                  *)
(***************************************************************************)
VARIABLES
    pc,         \* position of the calling sequence
    a, b,       \* the two scalar operands (self, other)
    epsilon,    \* the absolute tolerance
    ulp,        \* the ulp tolerance, a bit pattern
    eq, ne,     \* results of scalar approx_eq / approx_ne
    lane,       \* the lane the scalar operands were inserted at
    va, vb,     \* the two vector operands
    ve, vu,     \* the per-lane tolerances
    meq, mne,   \* result masks of simd_approx_eq / simd_approx_ne
    veq, vne,   \* results of approx_eq / approx_ne of the vectors
    x, y,       \* two bit patterns
    sat,        \* <<x.saturating_sub(y), y.saturating_sub(x)>>
    dist,       \* x.abs_sub(y)
    vdist,      \* lanes of SimdBits::abs_sub
    conv,       \* x, from_bits(x), to_bits of that, and once more
    vconv,      \* the same for a vector of bit patterns
    cpc,        \* per concurrent caller: position within its call
    cop,        \* per concurrent caller: the method it calls
    ctest,      \* per concurrent caller: its local test results
    cres,       \* per concurrent caller: the value returned
    flagv,      \* the value argument of SimdMask::flag
    mask,       \* the mask SimdMask::flag returns
    vsel,       \* result of SimdMask::select
    vneg,       \* result of SimdMask::negate
    vins,       \* result of SimdReal::insert
    lhs, rhs,   \* integer-valued operands of div_euclid / rem_euclid
    quot, rem   \* lhs.div_euclid(rhs), lhs.rem_euclid(rhs)

scalars == <<a, b, epsilon, ulp>>
vectors == <<lane, va, vb, ve, vu>>
scalar_results == <<eq, ne>>
simd_results == <<meq, mne, veq, vne>>
bits_state == <<x, y, sat, dist, vdist>>
conv_state == <<conv, vconv>>
callers == <<cpc, cop, ctest, cres>>
mask_state == <<flagv, mask, vsel, vneg, vins>>
euclid_state == <<lhs, rhs, quot, rem>>
vars ==
    <<pc, scalars, scalar_results, vectors, simd_results, bits_state,
      conv_state, callers, mask_state, euclid_state>>

\* A result not computed yet.
None == "none"

NoBits == x = None /\ y = None /\ sat = None /\ dist = None /\ vdist = None
NoResults ==
    /\ eq = None /\ ne = None
    /\ meq = None /\ mne = None /\ veq = None /\ vne = None
NoConv == conv = None /\ vconv = None
NoCallers == cpc = None /\ cop = None /\ ctest = None /\ cres = None
NoMasks ==
    flagv = None /\ mask = None /\ vsel = None /\ vneg = None /\ vins = None
NoEuclid == lhs = None /\ rhs = None /\ quot = None /\ rem = None

(***************************************************************************)
(* Scalar calls followed by the same calls on splatted vectors.            *)
(***************************************************************************)
Init ==
    /\ pc = "start"
    /\ a \in RealT
    /\ b \in RealT
    /\ epsilon \in EpsInputs
    /\ ulp \in UlpInputs
    /\ lane = None /\ va = None /\ vb = None /\ ve = None /\ vu = None
    /\ NoResults
    /\ NoBits
    /\ NoConv
    /\ NoMasks
    /\ NoEuclid
    /\ NoCallers

\* Fault: a call that validates its tolerance and fails on a NaN or negative
\* epsilon instead of returning.
ApproxEq_validating ==
    /\ pc = "start"
    /\ ~is_nan(epsilon)
    /\ ~is_sign_negative(epsilon)
    /\ pc' = "approx_eq"
    /\ eq' = approx_eq(a, b, epsilon, ulp)
    /\ UNCHANGED <<scalars, ne, vectors, simd_results, bits_state, conv_state, callers,
                 mask_state, euclid_state>>

\* eq = a.approx_eq(&b, epsilon, ulp)
ApproxEq ==
    /\ pc = "start"
    /\ pc' = "approx_eq"
    /\ eq' = approx_eq(a, b, epsilon, ulp)
    /\ UNCHANGED <<scalars, ne, vectors, simd_results, bits_state, conv_state, callers,
                 mask_state, euclid_state>>

\* ne = a.approx_ne(&b, epsilon, ulp)
ApproxNe ==
    /\ pc = "approx_eq"
    /\ pc' = "approx_ne"
    /\ ne' = approx_ne(a, b, epsilon, ulp)
    /\ UNCHANGED <<scalars, eq, vectors, simd_results, bits_state, conv_state, callers,
                 mask_state, euclid_state>>

\* va = a.splat(), vb = b.splat(), ve = epsilon.splat(), vu = ulp.splat()
Splat ==
    /\ pc = "approx_ne"
    /\ pc' = "vectors"
    /\ va' = splat(a)
    /\ vb' = splat(b)
    /\ ve' = splat(epsilon)
    /\ vu' = splat(ulp)
    /\ UNCHANGED <<scalars, scalar_results, lane, simd_results, bits_state, conv_state, callers,
                 mask_state, euclid_state>>

\* meq = va.simd_approx_eq(vb, ve, vu)
SimdApproxEq ==
    /\ pc = "vectors"
    /\ pc' = "simd_approx_eq"
    /\ meq' = simd_approx_eq(va, vb, ve, vu)
    /\ UNCHANGED <<scalars, scalar_results, vectors, mne, veq, vne, bits_state, conv_state, callers,
                 mask_state, euclid_state>>

\* mne = va.simd_approx_ne(vb, ve, vu)
SimdApproxNe ==
    /\ pc = "simd_approx_eq"
    /\ pc' = "simd_approx_ne"
    /\ mne' = simd_approx_ne(va, vb, ve, vu)
    /\ UNCHANGED <<scalars, scalar_results, vectors, meq, veq, vne, bits_state, conv_state, callers,
                 mask_state, euclid_state>>

\* veq = va.approx_eq(&vb, epsilon, ulp)
VecApproxEq ==
    /\ pc = "simd_approx_ne"
    /\ pc' = "vec_approx_eq"
    /\ veq' = vec_approx_eq(va, vb, epsilon, ulp)
    /\ UNCHANGED <<scalars, scalar_results, vectors, meq, mne, vne, bits_state, conv_state, callers,
                 mask_state, euclid_state>>

\* vne = va.approx_ne(&vb, epsilon, ulp)
VecApproxNe ==
    /\ pc = "vec_approx_eq"
    /\ pc' = "done"
    /\ vne' = vec_approx_ne(va, vb, epsilon, ulp)
    /\ UNCHANGED <<scalars, scalar_results, vectors, meq, mne, veq, bits_state, conv_state, callers,
                 mask_state, euclid_state>>

Next ==
    \/ ApproxEq
    \/ ApproxNe
    \/ Splat
    \/ SimdApproxEq
    \/ SimdApproxNe
    \/ VecApproxEq
    \/ VecApproxNe

Spec == Init /\ [][Next]_vars

\* The two scalar calls alone, on the same operands and tolerances.
NextScalar ==
    \/ ApproxEq
    \/ ApproxNe

SpecScalar == Init /\ [][NextScalar]_vars

\* The same calling sequence on every class of operands and tolerances.
InitTotal ==
    /\ pc = "start"
    /\ a \in TotalInputs
    /\ b \in TotalInputs
    /\ epsilon \in TotalEpsInputs
    /\ ulp \in TotalUlpInputs
    /\ lane = None /\ va = None /\ vb = None /\ ve = None /\ vu = None
    /\ NoResults
    /\ NoBits
    /\ NoConv
    /\ NoMasks
    /\ NoEuclid
    /\ NoCallers

SpecTotal == InitTotal /\ [][Next]_vars

(***************************************************************************)
(* Lane-wise calls on vectors whose lanes differ: the scalar operands and  *)
(* tolerances are inserted at the first or the last lane of vectors        *)
(* splatted from a fill.                                                   *)
(***************************************************************************)
InitLanes ==
    /\ pc = "vectors"
    /\ a \in RealT
    /\ b \in RealT
    /\ epsilon \in LaneEpsInputs
    /\ ulp \in LaneUlpInputs
    /\ lane \in {1, Lanes}
    /\ \E f \in FillInputs :
        /\ va = insert(splat(f.a), lane, a)
        /\ vb = insert(splat(f.b), lane, b)
        /\ ve = insert(splat(f.epsilon), lane, epsilon)
        /\ vu = insert(splat(f.ulp), lane, ulp)
    /\ NoResults
    /\ NoBits
    /\ NoConv
    /\ NoMasks
    /\ NoEuclid
    /\ NoCallers

NextLanes ==
    \/ SimdApproxEq
    \/ SimdApproxNe
    \/ VecApproxEq
    \/ VecApproxNe

SpecLanes == InitLanes /\ [][NextLanes]_vars

(***************************************************************************)
(* Calls of the bit-pattern operations on every pair of patterns.          *)
(***************************************************************************)
\* The SimdBits vector from the array [p, q, p, ..].
Alternate(p, q) == [i \in LaneIdx |-> IF i % 2 = 1 THEN p ELSE q]

InitBits ==
    /\ pc = "bits"
    /\ x \in BitsT
    /\ y \in BitsT
    /\ sat = None /\ dist = None /\ vdist = None
    /\ a = None /\ b = None /\ epsilon = None /\ ulp = None
    /\ lane = None /\ va = None /\ vb = None /\ ve = None /\ vu = None
    /\ NoResults
    /\ NoConv
    /\ NoMasks
    /\ NoEuclid
    /\ NoCallers

\* sat = (x.saturating_sub(y), y.saturating_sub(x))
SaturatingSub ==
    /\ pc = "bits"
    /\ sat' = <<saturating_sub(x, y), saturating_sub(y, x)>>
    /\ pc' = "saturating_sub"
    /\ UNCHANGED <<scalars, scalar_results, vectors, simd_results, x, y, dist, vdist,
                 conv_state, callers,
                 mask_state, euclid_state>>

\* dist = x.abs_sub(y)
AbsSub ==
    /\ pc = "saturating_sub"
    /\ dist' = abs_sub(x, y)
    /\ pc' = "abs_sub"
    /\ UNCHANGED <<scalars, scalar_results, vectors, simd_results, x, y, sat, vdist,
                 conv_state, callers,
                 mask_state, euclid_state>>

\* vdist = Simd::from([x, y, ..]).abs_sub(Simd::from([y, x, ..]))
SimdAbsSub ==
    /\ pc = "abs_sub"
    /\ vdist' = simd_abs_sub(Alternate(x, y), Alternate(y, x))
    /\ pc' = "simd_abs_sub"
    /\ UNCHANGED <<scalars, scalar_results, vectors, simd_results, x, y, sat, dist,
                 conv_state, callers,
                 mask_state, euclid_state>>

NextBits ==
    \/ SaturatingSub
    \/ AbsSub
    \/ SimdAbsSub

SpecBits == InitBits /\ [][NextBits]_vars

(***************************************************************************)
(* Reinterpretations between a value and its bit pattern: a value to its   *)
(* pattern and back, a pattern to its value and back, and the same on      *)
(* vectors.                                                                *)
(***************************************************************************)
InitConv ==
    /\ pc = "conv"
    /\ a \in RealT
    /\ x \in BitsT
    /\ b = None /\ epsilon = None /\ ulp = None
    /\ y = None /\ sat = None /\ dist = None /\ vdist = None
    /\ lane = None /\ va = None /\ vb = None /\ ve = None /\ vu = None
    /\ NoResults
    /\ NoConv
    /\ NoMasks
    /\ NoEuclid
    /\ NoCallers

\* conv[1] = a.to_bits()
ToBits ==
    /\ pc = "conv"
    /\ conv' = <<to_bits(a)>>
    /\ pc' = "to_bits"
    /\ UNCHANGED <<scalars, scalar_results, vectors, simd_results, bits_state,
                 vconv, callers,
                 mask_state, euclid_state>>

\* conv[2] = R::from_bits(conv[1])
FromBits ==
    /\ pc = "to_bits"
    /\ conv' = Append(conv, from_bits(conv[1]))
    /\ pc' = "from_bits"
    /\ UNCHANGED <<scalars, scalar_results, vectors, simd_results, bits_state,
                 vconv, callers,
                 mask_state, euclid_state>>

\* conv[3] = conv[2].to_bits()
ToBitsAgain ==
    /\ pc = "from_bits"
    /\ conv' = Append(conv, to_bits(conv[2]))
    /\ pc' = "to_bits_again"
    /\ UNCHANGED <<scalars, scalar_results, vectors, simd_results, bits_state,
                 vconv, callers,
                 mask_state, euclid_state>>

\* conv[4] = R::from_bits(x).to_bits()
PatternRoundTrip ==
    /\ pc = "to_bits_again"
    /\ conv' = Append(conv, to_bits(from_bits(x)))
    /\ pc' = "pattern"
    /\ UNCHANGED <<scalars, scalar_results, vectors, simd_results, bits_state,
                 vconv, callers,
                 mask_state, euclid_state>>

\* vconv = Simd::from_bits(Simd::from([x, conv[1], ..])).to_bits()
SimdPatternRoundTrip ==
    /\ pc = "pattern"
    /\ vconv' = simd_to_bits(simd_from_bits(Alternate(x, conv[1])))
    /\ pc' = "simd_pattern"
    /\ UNCHANGED <<scalars, scalar_results, vectors, simd_results, bits_state,
                 conv, callers,
                 mask_state, euclid_state>>

NextConv ==
    \/ ToBits
    \/ FromBits
    \/ ToBitsAgain
    \/ PatternRoundTrip
    \/ SimdPatternRoundTrip

SpecConv == InitConv /\ [][NextConv]_vars

(***************************************************************************)
(* Concurrent callers of approx_eq / approx_ne on the same borrowed         *)
(* operands.  A call is taken in the steps of its evaluation: the epsilon  *)
(* test, the ulp test unless `||` short-circuits, and the return; the      *)
(* steps of different callers interleave freely.                           *)
(***************************************************************************)
Callers == 1 .. NumCallers

\* The operands and tolerances the concurrent calls share.
ConcInputs ==
    {PosZero, NegZero, MinPositive, [MinPositive EXCEPT !.s = 1], INFINITY, NAN}
ConcEpsInputs == {PosZero, NAN}
ConcUlpInputs == {0, 1}

\* The right operand of `||` in approx_eq.
ulp_test(self, other, u) ==
    /\ ~is_nan(self)
    /\ ~is_nan(other)
    /\ sign_gate(self, other)
    /\ abs_sub(to_bits(self), to_bits(other)) <= u

InitConc ==
    /\ pc = "conc"
    /\ a \in ConcInputs
    /\ b \in ConcInputs
    /\ epsilon \in ConcEpsInputs
    /\ ulp \in ConcUlpInputs
    /\ cpc = [c \in Callers |-> "idle"]
    /\ cop = [c \in Callers |-> None]
    /\ ctest = [c \in Callers |-> <<>>]
    /\ cres = [c \in Callers |-> <<>>]
    /\ lane = None /\ va = None /\ vb = None /\ ve = None /\ vu = None
    /\ NoResults
    /\ NoBits
    /\ NoConv
    /\ NoMasks
    /\ NoEuclid

\* Caller c enters a.approx_eq(&b, epsilon, ulp) or a.approx_ne(&b, epsilon, ulp).
Call(c) ==
    /\ cpc[c] = "idle"
    /\ \E op \in {"approx_eq", "approx_ne"} : cop' = [cop EXCEPT ![c] = op]
    /\ cpc' = [cpc EXCEPT ![c] = "epsilon_test"]
    /\ UNCHANGED <<pc, scalars, scalar_results, vectors, simd_results, bits_state,
                 conv_state, ctest, cres,
                 mask_state, euclid_state>>

\* Fault: the epsilon test kept in a location all callers share.
EpsilonTest_shared_result(c) ==
    /\ cpc[c] = "epsilon_test"
    /\ ctest' = [d \in Callers |-> <<epsilon_test(a, b, epsilon)>>]
    /\ cpc' = [cpc EXCEPT ![c] =
                 IF epsilon_test(a, b, epsilon) THEN "return" ELSE "ulp_test"]
    /\ UNCHANGED <<pc, scalars, scalar_results, vectors, simd_results, bits_state,
                 conv_state, cop, cres,
                 mask_state, euclid_state>>

\* Caller c evaluates `Real::abs(*self - other) <= epsilon`; true decides the
\* disjunction.
EpsilonTest(c) ==
    /\ cpc[c] = "epsilon_test"
    /\ ctest' = [ctest EXCEPT ![c] = <<epsilon_test(a, b, epsilon)>>]
    /\ cpc' = [cpc EXCEPT ![c] =
                 IF epsilon_test(a, b, epsilon) THEN "return" ELSE "ulp_test"]
    /\ UNCHANGED <<pc, scalars, scalar_results, vectors, simd_results, bits_state,
                 conv_state, cop, cres,
                 mask_state, euclid_state>>

\* Caller c evaluates the right operand of `||`.
UlpTest(c) ==
    /\ cpc[c] = "ulp_test"
    /\ ctest' = [ctest EXCEPT ![c] = Append(@, ulp_test(a, b, ulp))]
    /\ cpc' = [cpc EXCEPT ![c] = "return"]
    /\ UNCHANGED <<pc, scalars, scalar_results, vectors, simd_results, bits_state,
                 conv_state, cop, cres,
                 mask_state, euclid_state>>

\* Caller c returns the disjunction, negated by approx_ne.
Return(c) ==
    /\ cpc[c] = "return"
    /\ cres' = [cres EXCEPT ![c] =
                  <<IF cop[c] = "approx_eq"
                    THEN ctest[c][Len(ctest[c])]
                    ELSE ~ctest[c][Len(ctest[c])]>>]
    /\ cpc' = [cpc EXCEPT ![c] = "returned"]
    /\ UNCHANGED <<pc, scalars, scalar_results, vectors, simd_results, bits_state,
                 conv_state, cop, ctest,
                 mask_state, euclid_state>>

NextConc ==
    \E c \in Callers :
        \/ Call(c)
        \/ EpsilonTest(c)
        \/ UlpTest(c)
        \/ Return(c)

SpecConc == InitConc /\ [][NextConc]_vars

(***************************************************************************)
(* Lane operations: a value inserted at a lane index, a flag mask built    *)
(* for that index, and lanes selected and negated by the mask.  The index  *)
(* ranges over the lanes and one index past them.                          *)
(***************************************************************************)
\* The lane values of the vectors operated on.
MaskInputs == {PosZero, MinPositive, NEG_INFINITY, NAN}

\* Lane indices passed by the caller: every lane and the first one out of
\* bounds.
IndexInputs == 1 .. (Lanes + 1)

InitMask ==
    /\ pc = "mask"
    /\ lane \in IndexInputs
    /\ flagv \in BOOLEAN
    /\ a \in MaskInputs
    /\ va \in [LaneIdx -> MaskInputs]
    /\ vb = splat(a)
    /\ b = None /\ epsilon = None /\ ulp = None /\ ve = None /\ vu = None
    /\ mask = None /\ vsel = None /\ vneg = None /\ vins = None
    /\ NoResults
    /\ NoBits
    /\ NoConv
    /\ NoCallers
    /\ NoEuclid

\* vins = va.insert(lane, a): indexing past the lanes panics.
Insert ==
    /\ pc = "mask"
    /\ IF lane \in LaneIdx
       THEN /\ pc' = "insert"
            /\ vins' = insert(va, lane, a)
       ELSE /\ pc' = "panic"
            /\ vins' = vins
    /\ UNCHANGED <<scalars, scalar_results, vectors, simd_results, bits_state,
                 conv_state, callers, euclid_state, flagv, mask, vsel, vneg>>

\* mask = Simd::mask_flag(lane, flagv), for the index insert accepted.
Flag ==
    /\ pc = "insert"
    /\ pc' = "flag"
    /\ mask' = mask_flag(lane, flagv)
    /\ UNCHANGED <<scalars, scalar_results, vectors, simd_results, bits_state,
                 conv_state, callers, euclid_state, flagv, vsel, vneg, vins>>

\* vsel = mask.select(va, vb)
Select ==
    /\ pc = "flag"
    /\ pc' = "select"
    /\ vsel' = select(mask, va, vb)
    /\ UNCHANGED <<scalars, scalar_results, vectors, simd_results, bits_state,
                 conv_state, callers, euclid_state, flagv, mask, vneg, vins>>

\* vneg = mask.negate(va)
Negate ==
    /\ pc = "select"
    /\ pc' = "negate"
    /\ vneg' = negate(mask, va)
    /\ UNCHANGED <<scalars, scalar_results, vectors, simd_results, bits_state,
                 conv_state, callers, euclid_state, flagv, mask, vsel, vins>>

NextMask ==
    \/ Insert
    \/ Flag
    \/ Select
    \/ Negate

SpecMask == InitMask /\ [][NextMask]_vars

(***************************************************************************)
(* Euclidean division and remainder of the build with the libm feature.    *)
(* The operands are integer values the format represents exactly; they are *)
(* kept as integers, and every arithmetic step rounds its exact result to  *)
(* the significand precision, ties to even.  The exponent range of f32 and *)
(* f64 is far wider than the operands used, so it is not a limit here.     *)
(***************************************************************************)
\* Significand precision in bits, the implicit bit included (24 for f32).
Precision == ManBits + 1

\* Largest operand magnitude: two bits past the last power of two below
\* which every integer is representable.
MaxInt == Pow2(Precision + 2)

AbsInt(n) == IF n < 0 THEN 0 - n ELSE n

Sgn(n) == IF n < 0 THEN 0 - 1 ELSE IF n > 0 THEN 1 ELSE 0

\* num / den rounded to the nearest integer, ties to the even one.
RoundHalfEven(num, den) ==
    LET q == num \div den
        r == num % den
    IN  IF 2 * r > den \/ (2 * r = den /\ q % 2 = 1) THEN q + 1 ELSE q

\* The value of the format nearest to the integer n.
RoundInt(n) ==
    LET m == AbsInt(n)
        shift == BitLen(m) - Precision
    IN  IF shift <= 0
        THEN n
        ELSE Sgn(n) * RoundHalfEven(m, Pow2(shift)) * Pow2(shift)

\* `u + v`: the exact sum rounded.
Plus(u, v) == RoundInt(u + v)

\* `u / v`: the exact quotient rounded to Precision significant bits; the
\* result m / 2^s for s >= 0 and m * 2^-s for s < 0.
Quotient(u, v) ==
    LET n == AbsInt(u)
        d == AbsInt(v)
        EMax == BitLen(MaxInt)
        e == CHOOSE k \in (0 - EMax) .. EMax :
                 /\ d * Pow2(EMax + k) <= n * Pow2(EMax)
                 /\ n * Pow2(EMax) < d * Pow2(EMax + k + 1)
        s == Precision - 1 - e
        m == IF s >= 0
             THEN RoundHalfEven(n * Pow2(s), d)
             ELSE RoundHalfEven(n, d * Pow2(0 - s))
    IN  IF u = 0
        THEN [m |-> 0, s |-> 0]
        ELSE [m |-> Sgn(u) * Sgn(v) * m, s |-> s]

\* trunc(): the integer part, rounding toward zero.
trunc(q) ==
    IF q.s <= 0
    THEN q.m * Pow2(0 - q.s)
    ELSE Sgn(q.m) * (AbsInt(q.m) \div Pow2(q.s))

\* `u % v`: the exact remainder of the truncating division, with the sign of u.
Remainder(u, v) == Sgn(u) * (AbsInt(u) % AbsInt(v))

\* Real::div_euclid.
div_euclid(self, divisor) ==
    LET q == trunc(Quotient(self, divisor))
    IN  IF Remainder(self, divisor) < 0
        THEN IF divisor > 0 THEN Plus(q, 0 - 1) ELSE Plus(q, 1)
        ELSE q

\* Fault: the remainder of the truncating division, not adjusted.
rem_euclid_unadjusted(self, divisor) == Remainder(self, divisor)

\* Real::rem_euclid.
rem_euclid(self, divisor) ==
    LET r == Remainder(self, divisor)
    IN  IF r < 0 THEN Plus(r, AbsInt(divisor)) ELSE r

\* Integer values the format represents exactly.
EuclidInputs == {n \in (0 - MaxInt) .. MaxInt : RoundInt(n) = n}

InitEuclid ==
    /\ pc = "euclid"
    /\ lhs \in EuclidInputs
    /\ rhs \in EuclidInputs \ {0}
    /\ quot = None /\ rem = None
    /\ a = None /\ b = None /\ epsilon = None /\ ulp = None
    /\ lane = None /\ va = None /\ vb = None /\ ve = None /\ vu = None
    /\ NoResults
    /\ NoBits
    /\ NoConv
    /\ NoMasks
    /\ NoCallers

\* quot = lhs.div_euclid(rhs)
DivEuclid ==
    /\ pc = "euclid"
    /\ pc' = "div"
    /\ quot' = div_euclid(lhs, rhs)
    /\ UNCHANGED <<scalars, scalar_results, vectors, simd_results, bits_state,
                 conv_state, callers, mask_state, lhs, rhs, rem>>

\* rem = lhs.rem_euclid(rhs)
RemEuclid ==
    /\ pc = "div"
    /\ pc' = "rem"
    /\ rem' = rem_euclid(lhs, rhs)
    /\ UNCHANGED <<scalars, scalar_results, vectors, simd_results, bits_state,
                 conv_state, callers, mask_state, lhs, rhs, quot>>

NextEuclid ==
    \/ DivEuclid
    \/ RemEuclid

SpecEuclid == InitEuclid /\ [][NextEuclid]_vars

(***************************************************************************)
(* Properties.                                                             *)
(***************************************************************************)

\* The absolute difference of two bit patterns, computed in the integers.
Distance(p, q) == IF p >= q THEN p - q ELSE q - p

\* The criterion of the documentation for one pair of operands: within
\* epsilon, or neither NaN and equal sign bits and at most ulp patterns apart.
Criterion(self, other, eps, u) ==
    \/ le(abs(sub(self, other)), eps)
    \/ /\ ~is_nan(self)
       /\ ~is_nan(other)
       /\ self.s = other.s
       /\ Distance(to_bits(self), to_bits(other)) <= u

IsZero(r) == r.e = 0 /\ r.m = 0

\* The NaNs of the format by their fields: exponent all ones, significand
\* not zero, either sign bit.
NotANumber(r) == r.e = ExpMax /\ r.m # 0

\* C1: scalar approx_eq returns true exactly when abs(a - b) <= epsilon, or
\* neither operand is NaN and their sign bits are equal and the distance of
\* their bit patterns is at most ulp; operands of different sign are equal
\* only by the epsilon test.
C1_ApproxEqIsCriterion ==
    pc = "approx_eq" => (eq = Criterion(a, b, epsilon, ulp))

\* C2: on splatted operands and tolerances the vector test
\* simd_approx_eq(..).all(), i.e. approx_eq of the vectors, returns what the
\* scalar approx_eq returns.
C2_LanewiseEqualsScalar ==
    pc = "vec_approx_eq" =>
        /\ veq = eq
        /\ all(meq) = eq

\* C3: abs_sub(x, y) is max(x, y) - min(x, y) and stays within the width; at
\* most one of the two saturating subtractions is non-zero and both are zero
\* exactly when x = y; every lane of SimdBits::abs_sub is the same.
C3_AbsSubExact ==
    /\ pc \in {"saturating_sub", "abs_sub", "simd_abs_sub"} =>
        /\ sat[1] = 0 \/ sat[2] = 0
        /\ (sat[1] = 0 /\ sat[2] = 0) <=> (x = y)
    /\ pc \in {"abs_sub", "simd_abs_sub"} =>
        /\ dist = Distance(x, y)
        /\ dist \in BitsT
    /\ pc = "simd_abs_sub" =>
        \A i \in LaneIdx :
            /\ vdist[i] = Distance(Alternate(x, y)[i], Alternate(y, x)[i])
            /\ vdist[i] \in BitsT

C3_Witness ==
    /\ pc = "simd_abs_sub"
    /\ x = BITS_MIN
    /\ y = BITS_MAX
    /\ dist = BITS_MAX
    /\ sat = <<0, BITS_MAX>>
    /\ \A i \in LaneIdx : vdist[i] = BITS_MAX

\* C4: every lane i of the mask of simd_approx_eq is true exactly when lane i
\* of the operands meets the criterion with lane i of epsilon and of ulp.
C4_SimdApproxEqPerLane ==
    pc = "simd_approx_eq" =>
        \A i \in LaneIdx : meq[i] = Criterion(va[i], vb[i], ve[i], vu[i])

\* Two lanes with different tolerances and different results; the lane under
\* test is rejected for its sign only.
C4_Witness ==
    /\ pc = "simd_approx_eq"
    /\ ~meq[lane]
    /\ ~is_nan(a) /\ ~is_nan(b) /\ a.s # b.s
    /\ abs_sub(to_bits(a), to_bits(b)) <= ulp
    /\ \E j \in LaneIdx : meq[j] /\ ve[j] # ve[lane] /\ vu[j] # vu[lane]

\* C5: approx_eq(a, b, epsilon, ulp) = approx_eq(b, a, epsilon, ulp) for all
\* operands, and the same for every lane of simd_approx_eq.
C5_Symmetry ==
    /\ pc = "approx_eq" => (eq = approx_eq(b, a, epsilon, ulp))
    /\ pc = "simd_approx_eq" =>
        \A i \in LaneIdx : meq[i] = simd_approx_eq(vb, va, ve, vu)[i]

\* Different operands of one sign, bit pattern of a above that of b, found
\* equal by the ulp test alone.
C5_Witness ==
    /\ pc = "simd_approx_eq"
    /\ a.s = b.s
    /\ to_bits(a) > to_bits(b)
    /\ ~le(abs(sub(a, b)), epsilon)
    /\ eq
    /\ \A i \in LaneIdx : meq[i]

C7_ReflexiveExceptNaN ==
    (pc = "approx_eq" /\ a = b /\ IsZero(epsilon) /\ ulp = 0) =>
        /\ is_finite(a) => eq
        /\ NotANumber(a) => ~eq

C7_Witness ==
    /\ pc = "approx_eq"
    /\ a = b
    /\ NotANumber(a)
    /\ a.s = 1
    /\ IsZero(epsilon)
    /\ ulp = 0
    /\ ~eq

\* C8: with a NaN operand on either side and a finite epsilon, approx_eq is
\* false for every ulp, Bits::MAX included; so is every lane of
\* simd_approx_eq in which an operand is NaN.
C8_NaNAbsorption ==
    /\ (pc = "approx_eq" /\ (NotANumber(a) \/ NotANumber(b)) /\ is_finite(epsilon)) => ~eq
    /\ pc = "simd_approx_eq" =>
        \A i \in LaneIdx :
            ((NotANumber(va[i]) \/ NotANumber(vb[i])) /\ is_finite(ve[i])) => ~meq[i]

C8_Witness ==
    /\ pc = "simd_approx_eq"
    /\ NotANumber(b)
    /\ b.s = 1
    /\ ~NotANumber(a)
    /\ epsilon = MaxFinite
    /\ ulp = BITS_MAX
    /\ ~eq
    /\ \A i \in LaneIdx : ~meq[i]

\* C9: for a finite x and the value x' of the same sign whose bit pattern
\* differs by exactly 1, approx_eq(x, x', 0.0, 1) is true and
\* approx_eq(x, x', 0.0, 0) is false.
C9_AdjacentRescue ==
    (/\ pc = "approx_eq"
     /\ is_finite(a)
     /\ a.s = b.s
     /\ Distance(to_bits(a), to_bits(b)) = 1
     /\ IsZero(epsilon)) =>
        /\ ulp = 1 => eq
        /\ ulp = 0 => ~eq

\* The largest finite value and infinity, one ulp apart.
C9_Witness ==
    /\ pc = "approx_eq"
    /\ a = MaxFinite
    /\ b = INFINITY
    /\ epsilon = PosZero
    /\ ulp = 1
    /\ eq

\* C10: +0.0 and -0.0 are approximately equal, in either order, for every
\* epsilon >= 0 and every ulp, by the epsilon test; likewise in every lane.
C10_SignedZero ==
    /\ (/\ pc = "approx_eq"
        /\ IsZero(a) /\ IsZero(b) /\ a.s # b.s
        /\ le(PosZero, epsilon)) =>
            /\ eq
            /\ le(abs(sub(a, b)), epsilon)
    /\ pc = "simd_approx_eq" =>
        \A i \in LaneIdx :
            (/\ IsZero(va[i]) /\ IsZero(vb[i]) /\ va[i].s # vb[i].s
             /\ le(PosZero, ve[i])) => meq[i]

C10_Witness ==
    /\ pc = "simd_approx_eq"
    /\ a = NegZero
    /\ b = PosZero
    /\ epsilon = PosZero
    /\ ulp = 0
    /\ eq
    /\ \A i \in LaneIdx : meq[i]

\* The infinities of the format by their fields.
IsInfinity(r) == r.e = ExpMax /\ r.m = 0

\* e2 >= e1 as numbers (false when either is NaN).
AtLeast(e2, e1) == ~NotANumber(e2) /\ ~NotANumber(e1) /\ Value(e2) >= Value(e1)

\* r < 0 as a number: -0.0 and NaN are not.
Negative(r) == ~NotANumber(r) /\ Value(r) < 0

\* a == b of the floating-point type (PartialEq).
NumEqual(v, w) == ~NotANumber(v) /\ ~NotANumber(w) /\ Value(v) = Value(w)

\* C11: two equal infinities are approximately equal for every epsilon and
\* every ulp, although the epsilon test fails for them (inf - inf is NaN): the
\* ulp test accepts them at bit distance 0; likewise in every lane.
C11_EqualInfinities ==
    /\ (pc = "approx_eq" /\ a = b /\ IsInfinity(a)) =>
        /\ eq
        /\ ~le(abs(sub(a, b)), epsilon)
        /\ Distance(to_bits(a), to_bits(b)) = 0
    /\ pc = "simd_approx_eq" =>
        \A i \in LaneIdx : (va[i] = vb[i] /\ IsInfinity(va[i])) => meq[i]

C11_Witness ==
    /\ pc = "simd_approx_eq"
    /\ a = NEG_INFINITY
    /\ b = NEG_INFINITY
    /\ epsilon = INFINITY
    /\ ulp = 0
    /\ eq
    /\ \A i \in LaneIdx : meq[i]

\* C12: if approx_eq(a, b, e1, u) is true and e2 >= e1 then
\* approx_eq(a, b, e2, u) is true.
C12_EpsilonMonotone ==
    (pc = "approx_eq" /\ eq) =>
        \A e2 \in EpsInputs : AtLeast(e2, epsilon) => approx_eq(a, b, e2, ulp)

\* Equal by the epsilon test alone, with larger tolerances to move to.
C12_Witness ==
    /\ pc = "approx_eq"
    /\ eq
    /\ epsilon = MinPositive
    /\ Distance(to_bits(a), to_bits(b)) > ulp
    /\ a # b

\* C13: if approx_eq(a, b, e, u1) is true by the ulp test and u2 >= u1 then
\* approx_eq(a, b, e, u2) is true.
C13_UlpMonotone ==
    (pc = "approx_eq" /\ eq /\ ~le(abs(sub(a, b)), epsilon)) =>
        \A u2 \in BitsT : u2 >= ulp => approx_eq(a, b, epsilon, u2)

C13_Witness ==
    /\ pc = "approx_eq"
    /\ eq
    /\ ~le(abs(sub(a, b)), epsilon)
    /\ ulp = 1
    /\ Distance(to_bits(a), to_bits(b)) = 1

\* C14 as stated: approx_eq(a, b, 0, 0) is true exactly when neither operand
\* is NaN and the two have the identical bit pattern.
C14_BitwiseIdentity ==
    (pc = "approx_eq" /\ IsZero(epsilon) /\ ulp = 0) =>
        (eq <=> (~NotANumber(a) /\ ~NotANumber(b) /\ to_bits(a) = to_bits(b)))

\* C14 amended: approx_eq(a, b, 0, 0) is true exactly when neither operand is
\* NaN and the two have the identical bit pattern or are both zero (+0.0 and
\* -0.0 are identified, no other two values that differ in the sign bit are).
C14_IdentityUpToSignedZero ==
    (pc = "approx_eq" /\ IsZero(epsilon) /\ ulp = 0) =>
        (eq <=> (/\ ~NotANumber(a)
                 /\ ~NotANumber(b)
                 /\ \/ to_bits(a) = to_bits(b)
                    \/ IsZero(a) /\ IsZero(b)))

C14_Witness ==
    /\ pc = "approx_eq"
    /\ a = PosZero
    /\ b = NegZero
    /\ epsilon = PosZero
    /\ ulp = 0
    /\ eq

C20_SignGateNeverExcludes ==
    /\ pc = "approx_eq" => sign_gate(a, b)
    /\ (/\ pc = "approx_eq"
        /\ ~NotANumber(a)
        /\ ~NotANumber(b)
        /\ Distance(to_bits(a), to_bits(b)) <= ulp) => eq

\* Operands of opposite sign, beyond epsilon, equal by the ulp test.
C20_Witness ==
    /\ pc = "approx_eq"
    /\ a.s # b.s
    /\ ~NotANumber(a)
    /\ ~NotANumber(b)
    /\ ~le(abs(sub(a, b)), epsilon)
    /\ Distance(to_bits(a), to_bits(b)) <= ulp
    /\ eq

\* What the other lanes hold in a second run: the fills, and a lane of
\* opposite infinities within an infinite epsilon.
OtherLaneInputs ==
    FillInputs \cup
        {[a |-> INFINITY, b |-> NEG_INFINITY, epsilon |-> INFINITY, ulp |-> 0]}

\* C19: two runs of simd_approx_eq whose operands and tolerances agree in
\* lane i give masks that agree in lane i, whatever the other lanes hold (NaN
\* and infinities included).
C19_NoCrossLane ==
    pc = "simd_approx_eq" =>
        \A f \in OtherLaneInputs :
            simd_approx_eq(insert(splat(f.a), lane, va[lane]),
                           insert(splat(f.b), lane, vb[lane]),
                           insert(splat(f.epsilon), lane, ve[lane]),
                           insert(splat(f.ulp), lane, vu[lane]))[lane]
                = meq[lane]

\* The lane under test equal by the epsilon test only, every other lane
\* holding a NaN and unequal.
C19_Witness ==
    /\ pc = "simd_approx_eq"
    /\ meq[lane]
    /\ le(abs(sub(va[lane], vb[lane])), ve[lane])
    /\ Distance(to_bits(va[lane]), to_bits(vb[lane])) > vu[lane]
    /\ \A j \in LaneIdx \ {lane} : NotANumber(va[j]) /\ ~meq[j]

\* C18: reinterpretation loses nothing: for every value x, both zeros, the
\* infinities and every NaN included, from_bits(to_bits(x)) is x field for
\* field and to_bits(from_bits(to_bits(x))) = to_bits(x); for every pattern p,
\* to_bits(from_bits(p)) = p; likewise in every lane of a vector.
C18_BitsRoundTrip ==
    /\ pc = "from_bits" => conv[2] = a
    /\ pc = "to_bits_again" => conv[3] = conv[1]
    /\ pc = "pattern" => conv[4] = x /\ conv[4] \in BitsT
    /\ pc = "simd_pattern" =>
        \A i \in LaneIdx : vconv[i] = Alternate(x, conv[1])[i]

\* A NaN with the sign bit set and the pattern of -infinity, both unchanged.
C18_Witness ==
    /\ pc = "simd_pattern"
    /\ NotANumber(a)
    /\ a.s = 1
    /\ conv[2] = a
    /\ conv[3] = conv[1]
    /\ x = SignBit + ExpMax * ManMod
    /\ conv[4] = x
    /\ \A i \in LaneIdx : vconv[i] \in {x, conv[1]}

\* What caller d holds is the same before and after a step.
LocalsUnchanged(d) ==
    /\ cpc'[d] = cpc[d]
    /\ cop'[d] = cop[d]
    /\ ctest'[d] = ctest[d]
    /\ cres'[d] = cres[d]

\* C17: under every interleaving of the steps of concurrent calls of
\* approx_eq / approx_ne on shared operands, a step writes nothing but the
\* locals of the one caller taking it, the operands and tolerances stay what
\* they were, and a call that returns returns what the method returns when
\* run alone.
C17_ConcurrentCalls ==
    [][/\ UNCHANGED scalars
       /\ \E c \in Callers : \A d \in Callers \ {c} : LocalsUnchanged(d)
       /\ \A c \in Callers :
            cpc'[c] = "returned" =>
                cres'[c] = <<IF cop'[c] = "approx_eq"
                             THEN approx_eq(a, b, epsilon, ulp)
                             ELSE approx_ne(a, b, epsilon, ulp)>>]_vars

\* One caller has returned from approx_eq while another is between the two
\* tests of approx_ne.
C17_Witness ==
    /\ pc = "conc"
    /\ \E c, d \in Callers :
        /\ c # d
        /\ cpc[c] = "returned"
        /\ cop[c] = "approx_eq"
        /\ cres[c] = <<TRUE>>
        /\ cpc[d] = "ulp_test"
        /\ cop[d] = "approx_ne"

\* C16: for every operands, every epsilon (NaN, the infinities and negative
\* values included) and every ulp (0 and MAX included), each of the calls
\* approx_eq, approx_ne, simd_approx_eq, simd_approx_ne can be taken and
\* returns, a boolean for the scalar calls and a mask of booleans for the
\* lane-wise ones: the sequence of calls stops at no input before its end.
C16_Total ==
    /\ pc # "done" => ENABLED Next
    /\ pc = "approx_eq" => eq \in BOOLEAN
    /\ pc = "approx_ne" => ne \in BOOLEAN
    /\ pc = "simd_approx_eq" => meq \in [LaneIdx -> BOOLEAN]
    /\ pc = "simd_approx_ne" => mne \in [LaneIdx -> BOOLEAN]
    /\ pc = "done" => veq \in BOOLEAN /\ vne \in BOOLEAN

\* All calls made and returned on a NaN operand with a NaN epsilon and the
\* largest ulp.
C16_Witness ==
    /\ pc = "done"
    /\ NotANumber(a)
    /\ IsInfinity(b)
    /\ NotANumber(epsilon)
    /\ ulp = BITS_MAX
    /\ eq = FALSE
    /\ ne = TRUE
    /\ \A i \in LaneIdx : ~meq[i] /\ mne[i]

\* C24: with zero tolerances approx_eq is the equality of the floating-point
\* type: approx_eq(a, b, 0, 0) = (a == b) for all a and b, NaNs, infinities,
\* subnormals and zeros of either sign included.
C24_ZeroTolerancesIsEquality ==
    (pc = "approx_eq" /\ IsZero(epsilon) /\ ulp = 0) => (eq = NumEqual(a, b))

\* Equal infinities under a zero epsilon of negative sign.
C24_Witness ==
    /\ pc = "approx_eq"
    /\ a = INFINITY
    /\ b = INFINITY
    /\ epsilon = NegZero
    /\ ulp = 0
    /\ eq

\* C28: with ulp = Bits::MAX approx_eq is true for every two non-NaN operands
\* of equal sign bits, whatever epsilon is (negative and NaN included), and
\* false whenever an operand is NaN.
C28_MaxUlp ==
    (pc = "approx_eq" /\ ulp = BITS_MAX) =>
        /\ (~NotANumber(a) /\ ~NotANumber(b) /\ a.s = b.s) => eq
        /\ (NotANumber(a) \/ NotANumber(b)) => ~eq

\* Zero and infinity of one sign, equal under a NaN epsilon.
C28_Witness ==
    /\ pc = "approx_eq"
    /\ ulp = BITS_MAX
    /\ NotANumber(epsilon)
    /\ a = PosZero
    /\ b = INFINITY
    /\ eq

\* C29: with epsilon = +infinity approx_eq is true exactly when neither
\* operand is NaN, for every ulp, and so is every lane of simd_approx_eq.
C29_InfiniteEpsilon ==
    /\ (pc = "approx_eq" /\ epsilon = INFINITY) =>
        (eq = (~NotANumber(a) /\ ~NotANumber(b)))
    /\ (pc = "simd_approx_eq" /\ epsilon = INFINITY) =>
        \A i \in LaneIdx : meq[i] = (~NotANumber(va[i]) /\ ~NotANumber(vb[i]))

\* Opposite infinities, equal by the epsilon test with ulp = 0.
C29_Witness ==
    /\ pc = "simd_approx_eq"
    /\ epsilon = INFINITY
    /\ ulp = 0
    /\ a = INFINITY
    /\ b = NEG_INFINITY
    /\ eq
    /\ \A i \in LaneIdx : meq[i]

\* C26: abs_sub is a metric on the bit patterns of a width: symmetric, zero
\* exactly for equal patterns, and abs_sub(x, y) is at most
\* abs_sub(x, z) + abs_sub(z, y) for every z, the sum taken in the integers.
C26_AbsSubMetric ==
    pc = "abs_sub" =>
        /\ dist = abs_sub(y, x)
        /\ (dist = 0) <=> (x = y)
        /\ \A z \in BitsT : dist <= abs_sub(x, z) + abs_sub(z, y)

\* The two extreme patterns: the distance is Bits::MAX in either order and
\* the sum over a third pattern would wrap.
C26_Witness ==
    /\ pc = "abs_sub"
    /\ x = BITS_MAX
    /\ y = BITS_MIN
    /\ dist = BITS_MAX
    /\ abs_sub(x, 1) + abs_sub(1, y) = BITS_MAX

\* The number of next-representable-value steps between two non-NaN values of
\* one sign: the values of that sign above the smaller and up to the larger
\* magnitude, infinity counted as the value after the largest finite one.
Steps(v, w) ==
    LET lo == IF Magnitude(v) <= Magnitude(w) THEN Magnitude(v) ELSE Magnitude(w)
        hi == IF Magnitude(v) <= Magnitude(w) THEN Magnitude(w) ELSE Magnitude(v)
    IN Cardinality({r \in RealT :
           /\ r.s = v.s
           /\ ~NotANumber(r)
           /\ Magnitude(r) > lo
           /\ Magnitude(r) <= hi})

\* C27: for non-NaN a and b of equal sign bits (zero, subnormal, normal or
\* infinite) the distance of the bit patterns is the number of representable
\* steps between a and b, and approx_eq beyond epsilon is true exactly when b
\* is within ulp steps of a.
C27_BitDistanceIsSteps ==
    (pc = "approx_eq" /\ ~NotANumber(a) /\ ~NotANumber(b) /\ a.s = b.s) =>
        LET steps == Steps(a, b)
        IN /\ abs_sub(to_bits(a), to_bits(b)) = steps
           /\ ~le(abs(sub(a, b)), epsilon) => (eq <=> steps <= ulp)

\* The largest finite value and infinity: one step apart, beyond every finite
\* epsilon, equal with ulp = 1.
C27_Witness ==
    /\ pc = "approx_eq"
    /\ a = MaxFinite
    /\ b = INFINITY
    /\ epsilon = MaxFinite
    /\ ulp = 1
    /\ Steps(a, b) = 1
    /\ eq

\* C25: approx_eq of two vectors is true exactly when every lane of
\* simd_approx_eq on the splatted tolerances is true, and approx_ne exactly
\* when some lane of simd_approx_ne is true.
C25_VectorAllLanes ==
    pc = "done" =>
        /\ veq <=> \A i \in LaneIdx :
                    simd_approx_eq(va, vb, splat(epsilon), splat(ulp))[i]
        /\ vne <=> \E i \in LaneIdx :
                    simd_approx_ne(va, vb, splat(epsilon), splat(ulp))[i]

\* One lane approximately equal and a NaN lane: the vectors are not equal.
C25_Witness ==
    /\ pc = "done"
    /\ ~veq
    /\ vne
    /\ simd_approx_eq(va, vb, splat(epsilon), splat(ulp))[lane]
    /\ \E j \in LaneIdx : NotANumber(va[j])

\* C21: flag(lane, value) with lane among the N lanes is a mask of N lanes
\* whose lane `lane` is value and whose every other lane is the negation of
\* value.
C21_Flag ==
    pc = "flag" =>
        /\ DOMAIN mask = LaneIdx
        /\ \A i \in LaneIdx : mask[i] = (IF i = lane THEN flagv ELSE ~flagv)

\* The flag of the value false: one lane clear, every other lane set.
C21_Witness ==
    /\ pc = "flag"
    /\ flagv = FALSE
    /\ ~mask[lane]
    /\ \A i \in LaneIdx \ {lane} : mask[i]

\* C22: negate(values) flips the sign of exactly the lanes whose mask lane is
\* true and leaves the other lanes as they are; it is select(mask, -values,
\* values), select taking lane i of its first vector where the mask lane is
\* true and of its second where it is false.
C22_Negate ==
    /\ pc \in {"select", "negate"} =>
        \A i \in LaneIdx : vsel[i] = (IF mask[i] THEN va[i] ELSE vb[i])
    /\ pc = "negate" =>
        \A i \in LaneIdx :
            vneg[i] = (IF mask[i] THEN [va[i] EXCEPT !.s = 1 - va[i].s] ELSE va[i])

\* One lane negated (a NaN, to its NaN of the other sign), the others kept.
C22_Witness ==
    /\ pc = "negate"
    /\ flagv = TRUE
    /\ NotANumber(va[lane])
    /\ vneg[lane].s = 1
    /\ NotANumber(vneg[lane])
    /\ \A i \in LaneIdx \ {lane} : vneg[i] = va[i] /\ va[i] = MinPositive

\* C30: insert(lane, value) with lane among the N lanes returns the vector
\* with value in lane `lane` and the lanes of the original in every other
\* lane, the caller's vector staying as it was; with lane past the lanes the
\* call panics and returns no vector.
C30_Insert ==
    [][pc = "mask" =>
        /\ va' = va
        /\ lane \in LaneIdx =>
            /\ pc' = "insert"
            /\ DOMAIN vins' = LaneIdx
            /\ \A i \in LaneIdx : vins'[i] = (IF i = lane THEN a ELSE va[i])
        /\ lane \notin LaneIdx =>
            /\ pc' = "panic"
            /\ vins' = None]_vars

\* A value inserted at one lane of a vector whose lanes all differ from it.
C30_Witness ==
    /\ pc = "insert"
    /\ a = NAN
    /\ vins[lane] = NAN
    /\ \A i \in LaneIdx \ {lane} : vins[i] = NEG_INFINITY /\ va[i] = NEG_INFINITY
    /\ va[lane] = PosZero

\* Operands up to the power of two below which every integer is
\* representable.
InRange(n) == AbsInt(n) <= Pow2(Precision)

====
